---- MODULE Spec2Model ----
(***************************************************************************)
(* The streaming client of go-tiqs (package ticks): the WS struct, its     *)
(* Connect / Subscribe / Unsubscribe / Close methods, the receive loop     *)
(* handleMessages with reconnect and resubscribeAll, the frame decoder     *)
(* parseBinaryToTickData, and the two buffered channels DataChan/errChan.  *)
(*                                                                         *)
(* Goroutines are threads with a program counter.  sync.RWMutex is used    *)
(* only through Lock/Unlock and is not reentrant: mu is "free" or the name *)
(* of the thread that locked it.  A panic ends the whole process.          *)
(* The write-only field WS.TokenList (appended to by Subscribe and never   *)
(* read) is not part of the state.                                         *)
(***************************************************************************)
EXTENDS Integers, Sequences, FiniteSets, TLC

\* ------------------------------------------------------------------ bounds
\* WS.MaxRetries is a configurable field (NewWS sets 25); the model uses N = MaxRetries.
MaxRetries == 2
\* Frames the network delivers in the general specification.
MaxFrames == 2
\* The network injects a read error only while fewer than this many errors are queued.
MaxErrs == 1
\* The decoder on its own is given frames of every length up to this one
\* (229 is the longest length the decoder distinguishes) ...
DecodeMaxLen == 231
\* ... filled with this many byte patterns.
DecodeFills == 3

\* --------------------------------------------------------------- constants
DataChanCap == 1000
ErrChanCap == 100

Users == {"u1"}
Loops == {"g1", "g2", "g3"}
Threads == Users \cup Loops
Tokens == {1, 2}
Modes == {"full", "ltp"}
TokenLists == {<<2>>, <<1, 2>>}
ConnIds == 1 .. (Cardinality(Loops) + 1)

\* The architecture the program was built for.
VARIABLE goarch

\* ---------------------------------------------------------------- decoder
\* binary.Read(bytes.NewReader(data), binary.BigEndian, &value) with value int32:
\* reads the FIRST four bytes; with fewer than four bytes the read fails, the
\* error is discarded and value stays 0.  The result is two's complement.
bigEndianToInt(data) ==
    IF Len(data) < 4 THEN 0
    ELSE LET hi == data[1]
             lo == data[2] * 65536 + data[3] * 256 + data[4]
         IN  IF hi >= 128 THEN (hi - 256) * 16777216 + lo
                          ELSE hi * 16777216 + lo

\* int16(x) of an int32 x: the low 16 bits, two's complement.
ToInt16(x) ==
    LET m == x % 65536
    IN  IF m >= 32768 THEN m - 65536 ELSE m

\* data[lo:hi] of a Go slice (0-based, hi exclusive).  A slice expression
\* whose bounds exceed the length panics (SlicesTaken, OutOfRange below) and
\* yields nothing here.
Slice(data, lo, hi) == IF hi <= Len(data) THEN SubSeq(data, lo + 1, hi) ELSE <<>>

ZeroLevel == [Quantity |-> 0, Price |-> 0, Orders |-> 0]
ZeroDepth == [Bids |-> [i \in 1 .. 5 |-> ZeroLevel], Asks |-> [i \in 1 .. 5 |-> ZeroLevel]]
ZeroTick ==
    [Token |-> 0, LTP |-> 0, NetChangeIndicator |-> 0, NetChange |-> 0, LTQ |-> 0,
     AvgPrice |-> 0, TotalBuyQty |-> 0, TotalSellQty |-> 0, Open |-> 0, High |-> 0,
     Close |-> 0, Low |-> 0, Volume |-> 0, LTT |-> 0, Time |-> 0, OI |-> 0,
     OIDayHigh |-> 0, OIDayLow |-> 0, LowerLimit |-> 0, UpperLimit |-> 0,
     MarketDepth |-> ZeroDepth]

\* Mutant of ByteToInt32: the byte is taken as signed (int32(int8(b))).
ByteToInt32Signed(b) == IF b >= 128 THEN b - 256 ELSE b

\* int32(data[0]): a byte is unsigned, its value is kept.
ByteToInt32(b) == b

\* Mutant of DepthOffset: offset is set back to 89 before the loop over the asks.
DepthOffsetRestart(k) == 89 + 14 * (k % 5)

\* offset := 89, then offset += 14 after each DepthLevel literal: the offset of
\* literal number k, the bids being the literals 0 .. 4 and the asks 5 .. 9.
DepthOffset(k) == 89 + 14 * k

\* One DepthLevel literal of the depth loops, read at 0-based offset off.
ParseLevel(data, off) ==
    [Quantity |-> bigEndianToInt(Slice(data, off, off + 8)),
     Price    |-> bigEndianToInt(Slice(data, off + 8, off + 12)),
     Orders   |-> ToInt16(bigEndianToInt(Slice(data, off + 12, off + 14)))]

\* ---- float64 arithmetic of the NetChange expression ----
\* Magnitudes are bit sequences, most significant bit first, without leading
\* zeros (<<>> is 0), so that the 53-bit significands of float64 fit.
\* The element of a one-element set.  Only({F(e) : e \in {v}}) is F(v) with v
\* evaluated once, before F uses it.
Only(S) == CHOOSE r \in S : TRUE

Zeros(k) == [i \in 1 .. k |-> 0]

\* b without its leading zeros.
Strip(b) ==
    LET ones == {i \in 1 .. Len(b) : b[i] = 1}
    IN  IF ones = {} THEN <<>>
        ELSE SubSeq(b, CHOOSE i \in ones : \A k \in ones : i <= k, Len(b))

\* Bit strings, most significant bit first.
Bits == Seq({0, 1})

\* The bits of n, 0 <= n < 2^31.
NatBits(n) ==
    LET len == IF n >= 2^30 THEN 31
               ELSE CHOOSE l \in 0 .. 30 : n < 2^l /\ (l = 0 \/ n >= 2^(l - 1))
    IN  [i \in 1 .. len |-> (n \div 2^(len - i)) % 2]

\* The recursions below split their argument in halves, which keeps their
\* evaluation shallow.
\* The number with the bits b, Len(b) <= 31.
BitsNat[b \in Bits] ==
    IF b = <<>> THEN 0
    ELSE IF Len(b) = 1 THEN b[1]
    ELSE LET h == Len(b) \div 2
         IN  BitsNat[SubSeq(b, 1, h)] * 2^(Len(b) - h) + BitsNat[SubSeq(b, h + 1, Len(b))]

\* |x| of an int32 x (the magnitude of the minimum int32 is 2^31).
AbsBits(x) ==
    IF x = -2147483647 - 1 THEN <<1>> \o Zeros(31)
    ELSE NatBits(IF x < 0 THEN -x ELSE x)

AddArgs == [x : Bits, y : Bits, cin : {0, 1}]

\* x + y + cin for x and y of one length: [sum, carry], sum of that length.
AddCarry[a \in AddArgs] ==
    IF a.x = <<>> THEN [sum |-> <<>>, carry |-> a.cin]
    ELSE IF Len(a.x) = 1
    THEN [sum |-> <<(a.x[1] + a.y[1] + a.cin) % 2>>, carry |-> (a.x[1] + a.y[1] + a.cin) \div 2]
    ELSE LET n == Len(a.x)
             h == n \div 2
         IN  Only({Only({[sum |-> high.sum \o low.sum, carry |-> high.carry] :
                         high \in {AddCarry[[x |-> SubSeq(a.x, 1, h), y |-> SubSeq(a.y, 1, h),
                                              cin |-> low.carry]]}}) :
                   low \in {AddCarry[[x |-> SubSeq(a.x, h + 1, n), y |-> SubSeq(a.y, h + 1, n),
                                       cin |-> a.cin]]}})

\* x + y
AddBits(x, y) ==
    LET n == IF Len(x) > Len(y) THEN Len(x) ELSE Len(y)
    IN  Only({Strip(<<r.carry>> \o r.sum) :
              r \in {AddCarry[[x |-> Zeros(n - Len(x)) \o x, y |-> Zeros(n - Len(y)) \o y, cin |-> 0]]}})

DivArgs == [dividend : Bits, b : Nat, rem : Nat]

\* Long division by b (0 < b < 2^31): brings down the bits of dividend after
\* the remainder rem (rem < b): [q, rem], q with one bit per bit brought down.
\* 2 * rem + bit is compared with b without leaving the 32-bit range.
DivBits[a \in DivArgs] ==
    IF a.dividend = <<>> THEN [q |-> <<>>, rem |-> a.rem]
    ELSE IF Len(a.dividend) = 1
    THEN LET bit == a.dividend[1]
             ge == a.rem >= a.b - a.rem - bit
         IN  [q |-> <<IF ge THEN 1 ELSE 0>>,
              rem |-> IF ge THEN a.rem - (a.b - a.rem - bit) ELSE a.rem + a.rem + bit]
    ELSE LET n == Len(a.dividend)
             h == n \div 2
         IN  Only({Only({[q |-> first.q \o second.q, rem |-> second.rem] :
                         second \in {DivBits[[dividend |-> SubSeq(a.dividend, h + 1, n), b |-> a.b,
                                               rem |-> first.rem]]}}) :
                   first \in {DivBits[[dividend |-> SubSeq(a.dividend, 1, h), b |-> a.b,
                                        rem |-> a.rem]]}})

\* Rounding to the 53-bit significand of float64, to nearest, ties to even:
\* the value is mant * 2^shift (sticky: bits below q were lost already).
RoundBits(q, sticky) ==
    IF Len(q) <= 53 THEN [mant |-> q, shift |-> 0]
    ELSE LET top == SubSeq(q, 1, 53)
             rest == sticky \/ \E i \in 55 .. Len(q) : q[i] = 1
             up == q[54] = 1 /\ (rest \/ top[53] = 1)
         IN  [mant |-> IF up THEN AddBits(top, <<1>>) ELSE top, shift |-> Len(q) - 53]

\* The fraction bits kept by the division below: the quotient always has more
\* than 53 bits.
FracBits == 85

\* |d| * 2^FracBits / |c| for int32 d and c # 0: [q, exact].  Dividing by 2^31
\* (c the minimum int32) is a shift.
Quotient(d, c) ==
    IF c = -2147483647 - 1
    THEN [q |-> Strip(AbsBits(d) \o Zeros(FracBits - 31)), exact |-> TRUE]
    ELSE Only({[q |-> Strip(r.q), exact |-> r.rem = 0] :
               r \in {DivBits[[dividend |-> AbsBits(d) \o Zeros(FracBits),
                                b |-> IF c < 0 THEN -c ELSE c, rem |-> 0]]}})

\* The builds considered for what the language leaves to the implementation.
GoArchs == {"amd64", "arm64"}

\* int32(f) for a float64 f that int32 cannot represent (the Go specification
\* leaves the result to the implementation): CVTTSD2SL on amd64 yields the
\* minimum int32, FCVTZS on arm64 saturates and yields 0 for NaN.
\* kind is "+" (too large), "-" (too small) or "NaN".
Int32OutOfRange(kind, arch) ==
    IF arch = "amd64" THEN -2147483647 - 1
    ELSE IF kind = "+" THEN 2147483647
    ELSE IF kind = "-" THEN -2147483647 - 1
    ELSE 0

\* tick.LTP - tick.Close in int32: the difference wraps.
SubInt32(x, y) ==
    IF y >= 0
    THEN IF x >= (-2147483647 - 1) + y THEN x - y ELSE (x + 2147483647) - y + 2147483647 + 2
    ELSE IF x <= 2147483647 + y THEN x - y ELSE ((x - 2147483647) - 1) - y - 2147483647 - 1

\* m * 100 = m * 64 + m * 32 + m * 4
Times100(m) ==
    Only({AddBits(s96, m \o Zeros(2)) : s96 \in {AddBits(m \o Zeros(6), m \o Zeros(5))}})

\* The integer part of mant * 2^e.
Truncate(mant, e) ==
    IF e >= 0 THEN mant \o Zeros(e)
    ELSE IF -e >= Len(mant) THEN <<>>
    ELSE SubSeq(mant, 1, Len(mant) + e)

\* int32(f) of the float64 f with the sign neg and the integer part mag.
Int32Of(neg, mag, arch) ==
    Only({IF Len(m) <= 31 THEN (IF neg THEN -BitsNat[m] ELSE BitsNat[m])
          ELSE IF neg /\ m = <<1>> \o Zeros(31) THEN -2147483647 - 1
          ELSE Int32OutOfRange(IF neg THEN "-" ELSE "+", arch) : m \in {mag}})

\* int32((float64(d) / float64(c)) * 100) for int32 d and c: the quotient is
\* rounded to a float64, the product is rounded to a float64, the conversion
\* truncates toward zero.
Float64Percent(d, c, arch) ==
    IF c = 0
    THEN Int32OutOfRange(IF d > 0 THEN "+" ELSE IF d < 0 THEN "-" ELSE "NaN", arch)
    ELSE IF d = 0 THEN 0
    ELSE Only({Only({Int32Of((d < 0) # (c < 0), Truncate(rp.mant, rp.shift + rq.shift - FracBits), arch) :
                     rp \in {RoundBits(Times100(rq.mant), FALSE)}}) :
               rq \in {Only({RoundBits(qd.q, ~qd.exact) : qd \in {Quotient(d, c)}})}})

\* tick.NetChange = int32((float64(tick.LTP-tick.Close) / float64(tick.Close)) * 100)
NetChangeOf(ltp, close) ==
    Only({Float64Percent(d, c, goarch) : d \in {SubInt32(ltp, close)}, c \in {close}})

IndicatorOf(ltp, close) ==
    IF ltp > close THEN 43 ELSE IF ltp < close THEN 45 ELSE 32

\* Mutant of TooShort: a 16-byte frame passes the length check.
TooShortBelow16(n) == n < 16

\* if len(data) < 17 { return tick, fmt.Errorf("invalid data length: %d", len(data)) }
TooShort(n) == n < 17

\* Mutant of HasExtended: the extended block is read from frames of 80 bytes on.
HasExtendedFrom80(n) == n >= 80

\* if len(data) >= 81
HasExtended(n) == n >= 81

\* Mutant of HasQuote: the close and the net change are read from every frame
\* of 17 bytes or more.
HasQuoteFrom17(n) == n >= 17

\* if len(data) == 17
HasQuote(n) == n = 17

\* Mutant of HasDepth: the depth block is read from frames of 229 bytes on.
HasDepthFrom229(n) == n >= 229

\* if len(data) == 229
HasDepth(n) == n = 229

\* The index and slice expressions the decoder evaluates on a frame of n bytes,
\* as <<lo, hi>> (data[0] is <<0, 1>>), in the branches it takes for n.
SlicesTaken(n) ==
    IF n = 1 THEN {<<0, 1>>}
    ELSE IF TooShort(n) THEN {}
    ELSE {<<0, 4>>, <<4, 8>>}
         \cup (IF HasQuote(n) THEN {<<13, 17>>} ELSE {})
         \cup (IF HasExtended(n)
               THEN {<<17, 21>>, <<21, 29>>, <<29, 37>>, <<37, 41>>, <<41, 45>>, <<45, 49>>,
                     <<49, 53>>, <<53, 61>>, <<61, 65>>, <<65, 69>>, <<69, 73>>, <<73, 77>>,
                     <<77, 81>>}
               ELSE {})
         \cup (IF HasDepth(n)
               THEN {<<81, 85>>, <<85, 89>>}
                    \cup UNION {{<<DepthOffset(k), DepthOffset(k) + 8>>,
                                 <<DepthOffset(k) + 8, DepthOffset(k) + 12>>,
                                 <<DepthOffset(k) + 12, DepthOffset(k) + 14>>} : k \in 0 .. 9}
               ELSE {})

\* Go panics on a slice expression whose upper bound exceeds the length (the
\* frames ReadMessage returns have no spare capacity to speak of).
OutOfRange(n) == \E sl \in SlicesTaken(n) : sl[2] > n

\* parseBinaryToTickData: [tick, err, panic]; err = "" is a nil error, panic is
\* "none" when the call returns.
parseBinaryToTickData(data) ==
    LET n == Len(data) IN
    IF OutOfRange(n)
    THEN [tick |-> ZeroTick, err |-> "", panic |-> "slice bounds out of range"]
    ELSE IF n = 1 THEN [tick |-> [ZeroTick EXCEPT !.Token = ByteToInt32(data[1])], err |-> "", panic |-> "none"]
    ELSE IF TooShort(n) THEN [tick |-> ZeroTick, err |-> "invalid data length", panic |-> "none"]
    ELSE
      LET t0 == [ZeroTick EXCEPT !.Token = bigEndianToInt(Slice(data, 0, 4)),
                                 !.LTP = bigEndianToInt(Slice(data, 4, 8))]
          t1 == IF HasQuote(n)
                THEN LET c == bigEndianToInt(Slice(data, 13, 17))
                     IN  [t0 EXCEPT !.Close = c,
                                    !.NetChange = NetChangeOf(t0.LTP, c),
                                    !.NetChangeIndicator = IndicatorOf(t0.LTP, c)]
                ELSE t0
          t2 == IF HasExtended(n)
                THEN [t1 EXCEPT !.AvgPrice = bigEndianToInt(Slice(data, 17, 21)),
                                !.TotalBuyQty = bigEndianToInt(Slice(data, 21, 29)),
                                !.TotalSellQty = bigEndianToInt(Slice(data, 29, 37)),
                                !.Open = bigEndianToInt(Slice(data, 37, 41)),
                                !.High = bigEndianToInt(Slice(data, 41, 45)),
                                !.Close = bigEndianToInt(Slice(data, 45, 49)),
                                !.Low = bigEndianToInt(Slice(data, 49, 53)),
                                !.Volume = bigEndianToInt(Slice(data, 53, 61)),
                                !.LTT = bigEndianToInt(Slice(data, 61, 65)),
                                !.Time = bigEndianToInt(Slice(data, 65, 69)),
                                !.OI = bigEndianToInt(Slice(data, 69, 73)),
                                !.OIDayHigh = bigEndianToInt(Slice(data, 73, 77)),
                                !.OIDayLow = bigEndianToInt(Slice(data, 77, 81))]
                ELSE t1
          t3 == IF HasDepth(n)
                THEN [t2 EXCEPT !.LowerLimit = bigEndianToInt(Slice(data, 81, 85)),
                                !.UpperLimit = bigEndianToInt(Slice(data, 85, 89)),
                                !.MarketDepth =
                                    [Bids |-> [i \in 1 .. 5 |-> ParseLevel(data, DepthOffset(i - 1))],
                                     Asks |-> [i \in 1 .. 5 |-> ParseLevel(data, DepthOffset(5 + i - 1))]]]
                ELSE t2
      IN  [tick |-> t3, err |-> "", panic |-> "none"]


\* ------------------------------------------------------------------ state
VARIABLES
    pc,            \* thread -> position in the code
    mu,            \* WS.mu: "free" or the thread that locked it
    Conn,          \* WS.Conn: 0 is nil, otherwise a connection id
    connClosed,    \* connection ids closed by Conn.Close()
    rconn,         \* loop -> the connection its ReadMessage call is reading (0: none)
    attempt,       \* thread -> Connect's loop variable
    err,           \* thread -> Connect's err variable / the error a loop is about to send
    ctrace,        \* thread -> the dials and sleeps of its current Connect call
    subscriptions, \* WS.subscriptions: token -> mode, "none" when absent
    intended,      \* token -> mode of the latest Subscribe naming it not followed by an Unsubscribe
    unsubOther,    \* the caller's latest call was an Unsubscribe that deleted an entry stored
                   \* under a mode other than its mode argument
    call,          \* thread -> arguments of its Subscribe/Unsubscribe call
    pending,       \* thread -> resubscribeAll's tokensByMode entries still to be subscribed
    ret,           \* user -> value returned by its last call
    DataChan,      \* WS.DataChan buffer
    errChan,       \* WS.errChan buffer
    ctxDone,       \* WS.ctx cancelled
    dataClosed,    \* close(ws.DataChan) done
    errClosed,     \* close(ws.errChan) done
    sent,          \* control messages written to the socket by the latest call that holds or held mu
    panic,         \* "none" or the runtime panic that ended the process
    nframes,       \* frames the network has delivered
    dataEnded,     \* the consumer saw the tick stream end
    errEnded,      \* the consumer saw the error stream end
    message,       \* the byte sequence handed to the frame decoder on its own
    parsed,        \* what the decoder returned for message (NotParsed before the call)
    held,          \* loop -> the message its ReadMessage call returned, until the loop has handled it
    received       \* the ticks the consumer has received, in the order it received them

vars == <<pc, mu, Conn, connClosed, rconn, attempt, err, ctrace, subscriptions, intended,
          call, pending, ret, DataChan, errChan, ctxDone, dataClosed, errClosed, sent,
          panic, nframes, dataEnded, errEnded, unsubOther, goarch, message, parsed,
          held, received>>

connVars == <<Conn, connClosed, sent>>
regVars == <<subscriptions, intended, unsubOther>>
chanVars == <<DataChan, errChan>>
closeVars == <<ctxDone, dataClosed, errClosed>>
consVars == <<dataEnded, errEnded>>
callVars == <<call, pending>>
dialVars == <<attempt, err, ctrace>>
decVars == <<goarch, message, parsed, held, received>>

\* ----------------------------------------------------------------- errors
NilErr == <<"nil">>
NoRet == <<"none">>
ReadErr == <<"read">>
WriteErr == <<"write">>
ErrCloseSent == <<"websocket: close sent">>
DialErr(a) == <<"dial", a>>
\* fmt.Errorf("failed to connect after %d attempts: %w", ws.MaxRetries, err)
ConnectErr(e) == <<"failed to connect", MaxRetries, e>>
\* fmt.Errorf("reconnection failed: %w", err)
ReconnectErr(e) == <<"reconnection failed", e>>

NoCall == [op |-> "none", tokens |-> <<>>, mode |-> "none"]

\* parsed before the decoder has been called.
NotParsed == [tick |-> <<>>, err |-> "not called", panic |-> "none"]

\* held of a loop that has no message in hand.
NoMessage == [messageType |-> "none", message |-> <<>>]

Init ==
    /\ pc = [t \in Threads |-> IF t \in Users THEN "idle" ELSE "free"]
    /\ mu = "free"
    /\ Conn = 0
    /\ connClosed = {}
    /\ rconn = [t \in Loops |-> 0]
    /\ attempt = [t \in Threads |-> 0]
    /\ err = [t \in Threads |-> NilErr]
    /\ ctrace = [t \in Threads |-> <<>>]
    /\ subscriptions = [k \in Tokens |-> "none"]
    /\ intended = [k \in Tokens |-> "none"]
    /\ call = [t \in Threads |-> NoCall]
    /\ pending = [t \in Threads |-> <<>>]
    /\ ret = [t \in Users |-> NoRet]
    /\ DataChan = <<>>
    /\ errChan = <<>>
    /\ ctxDone = FALSE
    /\ dataClosed = FALSE
    /\ errClosed = FALSE
    /\ sent = <<>>
    /\ panic = "none"
    /\ nframes = 0
    /\ dataEnded = FALSE
    /\ errEnded = FALSE
    /\ unsubOther = FALSE
    /\ goarch = "amd64"
    /\ message = <<>>
    /\ parsed = NotParsed
    /\ held = [t \in Loops |-> NoMessage]
    /\ received = <<>>

\* ---------------------------------------------------------------- helpers
\* Thread t of a running process is at position l (a panic ends the process).
At(t, l) == panic = "none" /\ pc[t] = l

LiveLoops == {g \in Loops : pc[g] # "free"}
FreeLoops == Loops \ LiveLoops

\* The connection a successful Dial returns: one no part of the program refers to.
NewConn ==
    LET used == {Conn} \cup {rconn[g] : g \in Loops}
    IN  CHOOSE k \in ConnIds \ used : \A j \in ConnIds \ used : k <= j

\* Closed connections the program still refers to through handle c or a read in rc.
StillClosed(c, rc) == {k \in connClosed : k = c \/ \E g \in Loops : rc[g] = k}

\* The goroutine `go ws.handleMessages()` starts.
NewLoop(t) == CHOOSE g \in FreeLoops \ {t} : TRUE

\* Tokens listed in a call's argument.
Listed(tokens) == {tokens[i] : i \in 1 .. Len(tokens)}

\* Mutant of StoreAll: additive, an existing entry keeps its mode.
StoreAbsentOnly(subs, tokens, mode) ==
    [k \in Tokens |-> IF k \in Listed(tokens) /\ subs[k] = "none" THEN mode ELSE subs[k]]

\* Mutant of StoreAll: the registry is only written when there is a socket to send on.
StoreIfConnected(subs, tokens, mode) ==
    [k \in Tokens |-> IF k \in Listed(tokens) /\ Conn # 0 THEN mode ELSE subs[k]]

\* for _, token := range tokens { ws.subscriptions.Store(token, mode) }
RECURSIVE StoreAll(_, _, _)
StoreAll(subs, tokens, mode) ==
    IF tokens = <<>> THEN subs
    ELSE StoreAll([subs EXCEPT ![Head(tokens)] = mode], Tail(tokens), mode)

\* Mutant of DeleteAll: the loop stops after the first token.
DeleteFirstOnly(subs, tokens) ==
    IF tokens = <<>> THEN subs ELSE [subs EXCEPT ![Head(tokens)] = "none"]

\* for _, token := range tokens { ws.subscriptions.Delete(token) }
RECURSIVE DeleteAll(_, _)
DeleteAll(subs, tokens) ==
    IF tokens = <<>> THEN subs
    ELSE DeleteAll([subs EXCEPT ![Head(tokens)] = "none"], Tail(tokens))

\* A non-blocking or blocking send of x on a buffered channel with room.
Enqueue(q, x) == Append(q, x)

\* The map[string]interface{} message of Subscribe / Unsubscribe.
Message(code, mode, tokens) == [code |-> code, mode |-> mode, tokens |-> tokens]

\* ws.Conn.WriteMessage: fails on a closed connection, may fail on an open one.
WriteOutcomes == IF Conn \in connClosed THEN {FALSE} ELSE {TRUE, FALSE}

\* sendJSONMessage(data) with the write outcome w: the returned error.
sendJSONMessage(w) ==
    IF Conn = 0 THEN ErrCloseSent
    ELSE IF w THEN NilErr ELSE WriteErr

Perms(S) == {s \in [1 .. Cardinality(S) -> S] : \A i, j \in 1 .. Cardinality(S) : i # j => s[i] # s[j]}

\* resubscribeAll's tokensByMode, in an iteration order of Range and of the map.
TokensOfMode(subs, m) == {k \in Tokens : subs[k] = m}
ModesPresent(subs) == {subs[k] : k \in Tokens} \ {"none"}
ResubPlans(subs) ==
    LET present == ModesPresent(subs)
        lists == UNION {Perms(TokensOfMode(subs, m)) : m \in present}
    IN  {[i \in 1 .. Len(ms) |-> [op |-> "sub", tokens |-> f[ms[i]], mode |-> ms[i]]] :
            ms \in Perms(present),
            f \in {g \in [present -> lists] : \A m \in present : g[m] \in Perms(TokensOfMode(subs, m))}}

\* ------------------------------------------------------------ user calls
\* The caller calls Connect, in the situations `allowed` the specification explores.
CallConnect(t, allowed) ==
    /\ t \in Users /\ At(t, "idle")
    /\ allowed
    /\ Cardinality(LiveLoops) + 2 <= Cardinality(Loops)
    /\ pc' = [pc EXCEPT ![t] = "Connect"]
    /\ ret' = [ret EXCEPT ![t] = NoRet]
    /\ unsubOther' = FALSE
    /\ ctrace' = [ctrace EXCEPT ![t] = <<>>]
    /\ UNCHANGED <<mu, connVars, rconn, attempt, err, subscriptions, intended, callVars, chanVars,
                   closeVars, panic, nframes, consVars, decVars>>

CallSubscribe(t, tokens, mode) ==
    /\ t \in Users /\ At(t, "idle")
    /\ pc' = [pc EXCEPT ![t] = "Subscribe"]
    /\ call' = [call EXCEPT ![t] = [op |-> "sub", tokens |-> tokens, mode |-> mode]]
    /\ ret' = [ret EXCEPT ![t] = NoRet]
    /\ unsubOther' = FALSE
    /\ ctrace' = [ctrace EXCEPT ![t] = <<>>]
    /\ UNCHANGED <<mu, connVars, rconn, attempt, err, subscriptions, intended, pending, chanVars,
                   closeVars, panic, nframes, consVars, decVars>>

CallUnsubscribe(t, tokens, mode) ==
    /\ t \in Users /\ At(t, "idle")
    /\ pc' = [pc EXCEPT ![t] = "Unsubscribe"]
    /\ call' = [call EXCEPT ![t] = [op |-> "unsub", tokens |-> tokens, mode |-> mode]]
    /\ ret' = [ret EXCEPT ![t] = NoRet]
    /\ unsubOther' = FALSE
    /\ ctrace' = [ctrace EXCEPT ![t] = <<>>]
    /\ UNCHANGED <<mu, connVars, rconn, attempt, err, subscriptions, intended, pending, chanVars,
                   closeVars, panic, nframes, consVars, decVars>>

CallClose(t) ==
    /\ t \in Users /\ At(t, "idle")
    /\ pc' = [pc EXCEPT ![t] = "Close"]
    /\ ret' = [ret EXCEPT ![t] = NoRet]
    /\ unsubOther' = FALSE
    /\ ctrace' = [ctrace EXCEPT ![t] = <<>>]
    /\ UNCHANGED <<mu, connVars, rconn, attempt, err, subscriptions, intended, callVars, chanVars,
                   closeVars, panic, nframes, consVars, decVars>>

\* ---------------------------------------------------------------- Connect
\* Mutant of MoreAttempts: off by one.
FewerAttempts(a) == a < MaxRetries

\* for attempt := 1; attempt <= ws.MaxRetries; attempt++
MoreAttempts(a) == a <= MaxRetries

\* Connect returns e to its caller: a user gets the value, reconnect() either
\* returns into handleMessages (which returns) or goes on to report the failure.
ConnectReturns(t, e) ==
    /\ mu' = "free"
    /\ attempt' = [attempt EXCEPT ![t] = 0]
    /\ ctrace' = [ctrace EXCEPT ![t] = <<>>]
    /\ IF t \in Users
       THEN /\ pc' = [pc EXCEPT ![t] = "idle"]
            /\ ret' = [ret EXCEPT ![t] = e]
            /\ err' = [err EXCEPT ![t] = NilErr]
       ELSE /\ pc' = [pc EXCEPT ![t] = "sendReconnectErr"]
            /\ err' = [err EXCEPT ![t] = ReconnectErr(e)]
            /\ ret' = ret

\* ws.mu.Lock(); attempt := 1
ConnectLock(t) ==
    /\ At(t, "Connect")
    /\ mu = "free"
    /\ IF MoreAttempts(1)
       THEN /\ mu' = t
            /\ attempt' = [attempt EXCEPT ![t] = 1]
            /\ ctrace' = [ctrace EXCEPT ![t] = <<>>]
            /\ pc' = [pc EXCEPT ![t] = "dial"]
            /\ err' = [err EXCEPT ![t] = NilErr]
            /\ ret' = ret
       ELSE ConnectReturns(t, ConnectErr(NilErr))
    /\ UNCHANGED <<connVars, rconn, regVars, callVars, chanVars, closeVars, panic,
                   nframes, consVars, decVars>>

\* Mutant of afterDial: Connect logs, sleeps and dials again after every dial,
\* a successful one too.
afterDialRetries(ok) == "sleep"

\* Mutant of afterDial: the receive loop is started right after the dial,
\* without the resubscription.
afterDialStartLoop(ok) == IF ok THEN "go" ELSE "sleep"

\* if err == nil { ws.resubscribeAll(); go ws.handleMessages(); return nil };
\* otherwise the log line and time.Sleep: where Connect goes on after a dial.
afterDial(ok) == IF ok THEN "resubscribeAll" ELSE "sleep"

\* ws.Conn, _, err = websocket.DefaultDialer.Dial(url, nil): a failed Dial returns a nil Conn.
\* Mutant of ConnOfFailedDial: a failed dial leaves the socket handle as it was.
ConnKeptOnFailedDial(old) == old

\* ws.Conn, err = websocket.DefaultDialer.Dial(...) with err # nil: the dialer
\* returns a nil connection, and the assignment stores it over the old handle.
ConnOfFailedDial(old) == 0

Dial(t, outcomes) ==
    /\ At(t, "dial")
    /\ ctrace' = [ctrace EXCEPT ![t] = Append(@, "dial")]
    /\ \E ok \in outcomes :
         IF ok
         THEN /\ Conn' = NewConn
              /\ connClosed' = StillClosed(0, rconn)
              /\ sent' = <<>>
              /\ err' = [err EXCEPT ![t] = NilErr]
              /\ pc' = [pc EXCEPT ![t] = afterDial(ok)]
         ELSE /\ Conn' = ConnOfFailedDial(Conn)
              /\ connClosed' = StillClosed(0, rconn)
              /\ sent' = <<>>
              /\ err' = [err EXCEPT ![t] = DialErr(attempt[t])]
              /\ pc' = [pc EXCEPT ![t] = afterDial(ok)]
    /\ UNCHANGED <<mu, rconn, attempt, regVars, callVars, ret, chanVars, closeVars,
                   panic, nframes, consVars, decVars>>

\* time.Sleep(ws.RetryDelay); attempt++; the loop test; the final return.
Sleep(t) ==
    /\ At(t, "sleep")
    /\ IF MoreAttempts(attempt[t] + 1)
       THEN /\ pc' = [pc EXCEPT ![t] = "dial"]
            /\ ctrace' = [ctrace EXCEPT ![t] = Append(@, "sleep")]
            /\ attempt' = [attempt EXCEPT ![t] = @ + 1]
            /\ UNCHANGED <<mu, err, ret>>
       ELSE ConnectReturns(t, ConnectErr(err[t]))
    /\ UNCHANGED <<connVars, rconn, regVars, callVars, chanVars, closeVars, panic,
                   nframes, consVars, decVars>>

\* resubscribeAll up to its first ws.Subscribe call: the Range over the registry.
resubscribeAll(t) ==
    /\ At(t, "resubscribeAll")
    /\ \E plan \in ResubPlans(subscriptions) :
         /\ pending' = [pending EXCEPT ![t] = plan]
         /\ pc' = [pc EXCEPT ![t] = IF plan = <<>> THEN "go" ELSE "Subscribe"]
    /\ UNCHANGED <<mu, connVars, rconn, dialVars, regVars, call, ret, chanVars,
                   closeVars, panic, nframes, consVars, decVars>>

\* go ws.handleMessages(); return nil (the deferred Unlock); a reconnecting
\* loop then returns from reconnect and from handleMessages.
StartLoop(t) ==
    /\ At(t, "go")
    /\ FreeLoops \ {t} # {}
    /\ mu' = "free"
    /\ pc' = [pc EXCEPT ![NewLoop(t)] = "top",
                        ![t] = IF t \in Users THEN "idle" ELSE "free"]
    /\ ret' = IF t \in Users THEN [ret EXCEPT ![t] = NilErr] ELSE ret
    /\ ctrace' = [ctrace EXCEPT ![t] = <<>>]
    /\ attempt' = [attempt EXCEPT ![t] = 0]
    /\ UNCHANGED <<connVars, rconn, err, regVars, callVars, chanVars, closeVars,
                   panic, nframes, consVars, decVars>>

\* ------------------------------------------------- Subscribe / Unsubscribe
\* The arguments of the call thread t is in: resubscribeAll's current entry, or the caller's.
Args(t) == IF pending[t] # <<>> THEN Head(pending[t]) ELSE call[t]

\* Where a Subscribe call returns to: the caller, or resubscribeAll's loop over
\* tokensByMode (which only logs the error).
SubscribeReturns(t, e) ==
    IF pending[t] # <<>>
    THEN /\ pending' = [pending EXCEPT ![t] = Tail(@)]
         /\ pc' = [pc EXCEPT ![t] = IF Tail(pending[t]) = <<>> THEN "go" ELSE "Subscribe"]
         /\ UNCHANGED <<call, ret>>
    ELSE /\ pc' = [pc EXCEPT ![t] = "idle"]
         /\ ret' = [ret EXCEPT ![t] = e]
         /\ call' = [call EXCEPT ![t] = NoCall]
         /\ pending' = pending

\* Subscribe from ws.mu.Lock() to the deferred Unlock.
Subscribe(t) ==
    /\ At(t, "Subscribe")
    /\ mu = "free"
    /\ mu' = "free"
    /\ LET a == Args(t) IN
       /\ subscriptions' = StoreAll(subscriptions, a.tokens, a.mode)
       /\ intended' = [k \in Tokens |->
                          IF \E i \in 1 .. Len(a.tokens) : a.tokens[i] = k
                          THEN a.mode ELSE intended[k]]
       /\ unsubOther' = unsubOther
       /\ \E w \in WriteOutcomes :
            /\ sent' = (IF pending[t] # <<>> THEN sent ELSE <<>>) \o
                        (IF sendJSONMessage(w) = NilErr
                         THEN <<Message("sub", a.mode, a.tokens)>> ELSE <<>>)
            /\ SubscribeReturns(t, sendJSONMessage(w))
    /\ UNCHANGED <<Conn, connClosed, rconn, dialVars, chanVars, closeVars, panic,
                   nframes, consVars, decVars>>

\* Unsubscribe from ws.mu.Lock() to the deferred Unlock.
Unsubscribe(t) ==
    /\ At(t, "Unsubscribe")
    /\ mu = "free"
    /\ mu' = "free"
    /\ LET a == call[t] IN
       /\ subscriptions' = DeleteAll(subscriptions, a.tokens)
       /\ intended' = [k \in Tokens |->
                          IF \E i \in 1 .. Len(a.tokens) : a.tokens[i] = k
                          THEN "none" ELSE intended[k]]
       /\ unsubOther' = \E k \in Listed(a.tokens) : subscriptions[k] \notin {"none", a.mode}
       /\ \E w \in WriteOutcomes :
            /\ sent' = IF sendJSONMessage(w) = NilErr
                       THEN <<Message("unsub", a.mode, a.tokens)>> ELSE <<>>
            /\ ret' = [ret EXCEPT ![t] = sendJSONMessage(w)]
    /\ pc' = [pc EXCEPT ![t] = "idle"]
    /\ call' = [call EXCEPT ![t] = NoCall]
    /\ UNCHANGED <<Conn, connClosed, rconn, dialVars, pending, chanVars, closeVars,
                   panic, nframes, consVars, decVars>>

\* ------------------------------------------------------------------ Close
\* ws.mu.Lock(); ws.cancel()
CloseLock(t) ==
    /\ At(t, "Close")
    /\ mu = "free"
    /\ mu' = t
    /\ ctxDone' = TRUE
    /\ pc' = [pc EXCEPT ![t] = "closeData"]
    /\ UNCHANGED <<connVars, rconn, dialVars, regVars, callVars, ret, chanVars,
                   dataClosed, errClosed, panic, nframes, consVars, decVars>>

\* close(ws.DataChan)
CloseData(t) ==
    /\ At(t, "closeData")
    /\ IF dataClosed
       THEN /\ panic' = "close of closed channel"
            /\ UNCHANGED <<pc, dataClosed>>
       ELSE /\ dataClosed' = TRUE
            /\ pc' = [pc EXCEPT ![t] = "closeErr"]
            /\ panic' = panic
    /\ UNCHANGED <<mu, connVars, rconn, dialVars, regVars, callVars, ret, chanVars,
                   ctxDone, errClosed, nframes, consVars, decVars>>

\* close(ws.errChan)
CloseErr(t) ==
    /\ At(t, "closeErr")
    /\ IF errClosed
       THEN /\ panic' = "close of closed channel"
            /\ UNCHANGED <<pc, errClosed>>
       ELSE /\ errClosed' = TRUE
            /\ pc' = [pc EXCEPT ![t] = "closeConn"]
            /\ panic' = panic
    /\ UNCHANGED <<mu, connVars, rconn, dialVars, regVars, callVars, ret, chanVars,
                   ctxDone, dataClosed, nframes, consVars, decVars>>

\* if ws.Conn != nil { return ws.Conn.Close() }; return nil (the deferred Unlock)
CloseConn(t) ==
    /\ At(t, "closeConn")
    /\ mu' = "free"
    /\ pc' = [pc EXCEPT ![t] = "idle"]
    /\ connClosed' = IF Conn # 0 THEN connClosed \cup {Conn} ELSE connClosed
    /\ ret' = [ret EXCEPT ![t] = IF Conn \in connClosed THEN <<"close">> ELSE NilErr]
    /\ UNCHANGED <<Conn, sent, rconn, dialVars, regVars, callVars, chanVars,
                   closeVars, panic, nframes, consVars, decVars>>

\* --------------------------------------------------------- handleMessages
\* select { case <-ws.ctx.Done(): return; default: if ws.Conn == nil { return } ...
LoopTop(t) ==
    /\ At(t, "top")
    /\ pc' = [pc EXCEPT ![t] = IF ctxDone \/ Conn = 0 THEN "free" ELSE "call"]
    /\ UNCHANGED <<mu, connVars, rconn, dialVars, regVars, callVars, ret, chanVars,
                   closeVars, panic, nframes, consVars, decVars>>

\* ws.Conn.ReadMessage(): the second, unlocked read of ws.Conn; the call blocks.
LoopCall(t) ==
    /\ At(t, "call")
    /\ IF Conn = 0
       THEN /\ panic' = "nil pointer dereference"
            /\ UNCHANGED <<pc, rconn>>
       ELSE /\ rconn' = [rconn EXCEPT ![t] = Conn]
            /\ pc' = [pc EXCEPT ![t] = "read"]
            /\ panic' = panic
    /\ UNCHANGED <<mu, connVars, dialVars, regVars, callVars, ret, chanVars,
                   closeVars, nframes, consVars, decVars>>

\* Mutant of onReadError: the loop reconnects first and does not queue the error.
onReadErrorReconnectFirst == "Connect"

\* if err != nil { log; ws.errChan <- err; ws.reconnect(); return }: the
\* statement that follows a failed read.
onReadError == "sendErr"

\* ReadMessage returns an error: always on a closed connection; on an open
\* one the network fails while fewer than maxErrs errors are queued.
ReadError(t, maxErrs) ==
    /\ At(t, "read")
    /\ rconn[t] \in connClosed \/ Len(errChan) < maxErrs
    /\ err' = [err EXCEPT ![t] = ReadErr]
    /\ rconn' = [rconn EXCEPT ![t] = 0]
    /\ connClosed' = StillClosed(Conn, rconn')
    /\ pc' = [pc EXCEPT ![t] = onReadError]
    /\ UNCHANGED <<mu, Conn, sent, attempt, ctrace, regVars, callVars, ret, chanVars,
                   closeVars, panic, nframes, consVars, decVars>>

\* Mutant of TrySend: a ring buffer that evicts the oldest item.
TrySendEvictOldest(q, x, cap) == IF Len(q) < cap THEN Append(q, x) ELSE Append(Tail(q), x)

\* select { case ws.DataChan <- tickData: default: }: the buffer after the send.
TrySend(q, x, cap) == IF Len(q) < cap THEN Enqueue(q, x) ELSE q

\* Mutant of SendPanics: a send on a closed channel goes through.
SendNeverPanics(closed) == FALSE

\* A send on a closed channel panics (also as a case of a select).
SendPanics(closed) == closed

\* Mutant of onParseError: a frame that fails to decode ends the reading like a
\* read error does.
onParseErrorFatal(e) == "sendErr"

\* if err != nil { log; continue }: where the loop goes on after a decode error.
onParseError(e) == "top"

\* Mutant of IsBinaryMessage: the message type is not looked at.
IsBinaryAlways(messageType) == TRUE

\* if messageType == websocket.BinaryMessage
IsBinaryMessage(messageType) == messageType = "binary"

\* The body of the loop after ReadMessage returned (messageType, f) without an
\* error: a binary frame is decoded and sent without blocking, any other
\* message is passed over.
handleMessage(t, messageType, f) ==
    IF ~IsBinaryMessage(messageType)
    THEN /\ rconn' = [rconn EXCEPT ![t] = 0]
         /\ pc' = [pc EXCEPT ![t] = "top"]
         /\ UNCHANGED <<DataChan, panic>>
    ELSE LET r == parseBinaryToTickData(f) IN
         IF r.panic # "none"
         THEN /\ panic' = r.panic
              /\ UNCHANGED <<pc, rconn, DataChan>>
         ELSE IF r.err # ""
         THEN /\ rconn' = [rconn EXCEPT ![t] = IF onParseError(r.err) = "top" THEN 0 ELSE @]
              /\ pc' = [pc EXCEPT ![t] = onParseError(r.err)]
              /\ UNCHANGED <<DataChan, panic>>
         ELSE IF SendPanics(dataClosed)
         THEN /\ panic' = "send on closed channel"
              /\ UNCHANGED <<pc, rconn, DataChan>>
         ELSE /\ DataChan' = TrySend(DataChan, r.tick, DataChanCap)
              /\ rconn' = [rconn EXCEPT ![t] = 0]
              /\ pc' = [pc EXCEPT ![t] = "top"]
              /\ panic' = panic

\* A text message a server sends: {"message":"pong"}.
TextFrames == {<<123, 34, 109, 101, 115, 115, 97, 103, 101, 34, 58, 34, 112, 111, 110, 103, 34, 125>>}

\* ReadMessage returns a message that is not a binary frame.
ReadText(t, maxFrames) ==
    /\ At(t, "read")
    /\ rconn[t] \notin connClosed
    /\ nframes < maxFrames
    /\ nframes' = nframes + 1
    /\ \E f \in TextFrames : handleMessage(t, "text", f)
    /\ UNCHANGED <<mu, connVars, dialVars, regVars, callVars, ret, errChan,
                   closeVars, consVars, decVars>>

\* ReadMessage returns the binary frame f: decode, then the non-blocking send.
ReadBinary(t, frames, maxFrames) ==
    /\ At(t, "read")
    /\ rconn[t] \notin connClosed
    /\ nframes < maxFrames
    /\ nframes' = nframes + 1
    /\ \E f \in frames : handleMessage(t, "binary", f)
    /\ UNCHANGED <<mu, connVars, dialVars, regVars, callVars, ret, errChan,
                   closeVars, consVars, decVars>>

\* Mutant of reconnectAfter: the loop gives up when an earlier error is still queued.
reconnectOnce(q) == q = <<>>

\* ws.reconnect() follows the send of every read error, whatever happened before
\* (q is the error queue the error was sent on).
reconnectAfter(q) == TRUE

\* ws.errChan <- err: a blocking send; then ws.reconnect() calls ws.Connect().
SendErr(t) ==
    /\ At(t, "sendErr")
    /\ SendPanics(errClosed) \/ Len(errChan) < ErrChanCap
    /\ IF SendPanics(errClosed)
       THEN /\ panic' = "send on closed channel"
            /\ UNCHANGED <<pc, errChan, err>>
       ELSE /\ errChan' = Enqueue(errChan, err[t])
            /\ pc' = [pc EXCEPT ![t] = IF reconnectAfter(errChan) THEN "Connect" ELSE "free"]
            /\ err' = [err EXCEPT ![t] = NilErr]
            /\ panic' = panic
    /\ UNCHANGED <<mu, connVars, rconn, attempt, ctrace, regVars, callVars, ret,
                   DataChan, closeVars, nframes, consVars, decVars>>

\* ws.errChan <- fmt.Errorf("reconnection failed: %w", err): a blocking send;
\* reconnect returns and handleMessages returns.
SendReconnectErr(t) ==
    /\ At(t, "sendReconnectErr")
    /\ SendPanics(errClosed) \/ Len(errChan) < ErrChanCap
    /\ IF SendPanics(errClosed)
       THEN /\ panic' = "send on closed channel"
            /\ UNCHANGED <<pc, errChan, err>>
       ELSE /\ errChan' = Enqueue(errChan, err[t])
            /\ pc' = [pc EXCEPT ![t] = "free"]
            /\ err' = [err EXCEPT ![t] = NilErr]
            /\ panic' = panic
    /\ UNCHANGED <<mu, connVars, rconn, attempt, ctrace, regVars, callVars, ret,
                   DataChan, closeVars, nframes, consVars, decVars>>

\* ---------------------------------------------------------------- consumer
\* A receive from GetDataChannel(): a buffered value, or the end of a closed, drained channel.
RecvTick ==
    /\ panic = "none"
    /\ DataChan # <<>> \/ (dataClosed /\ ~dataEnded)
    /\ IF DataChan # <<>>
       THEN /\ DataChan' = Tail(DataChan)
            /\ dataEnded' = dataEnded
       ELSE /\ dataEnded' = TRUE
            /\ DataChan' = DataChan
    /\ UNCHANGED <<pc, mu, connVars, rconn, dialVars, regVars, callVars, ret, errChan,
                   closeVars, panic, nframes, errEnded, decVars>>

\* A receive from GetErrorChannel().
RecvErr ==
    /\ panic = "none"
    /\ errChan # <<>> \/ (errClosed /\ ~errEnded)
    /\ IF errChan # <<>>
       THEN /\ errChan' = Tail(errChan)
            /\ errEnded' = errEnded
       ELSE /\ errEnded' = TRUE
            /\ errChan' = errChan
    /\ UNCHANGED <<pc, mu, connVars, rconn, dialVars, regVars, callVars, ret, DataChan,
                   closeVars, panic, nframes, dataEnded, decVars>>

\* ---------------------------------------------------------- specification
\* The frames the network sends in the general specification: a 1-byte frame
\* and a 2-byte frame.
SampleFrames == {<<7>>, <<1, 2>>}

Next ==
    \/ \E t \in Users : CallConnect(t, LiveLoops = {})
    \/ \E t \in Users, tokens \in TokenLists, mode \in Modes : CallSubscribe(t, tokens, mode)
    \/ \E t \in Users, tokens \in TokenLists, mode \in Modes : CallUnsubscribe(t, tokens, mode)
    \/ \E t \in Users : CallClose(t)
    \/ \E t \in Threads : ConnectLock(t)
    \/ \E t \in Threads : Dial(t, BOOLEAN)
    \/ \E t \in Threads : Sleep(t)
    \/ \E t \in Threads : resubscribeAll(t)
    \/ \E t \in Threads : Subscribe(t)
    \/ \E t \in Threads : StartLoop(t)
    \/ \E t \in Users : Unsubscribe(t)
    \/ \E t \in Users : CloseLock(t)
    \/ \E t \in Users : CloseData(t)
    \/ \E t \in Users : CloseErr(t)
    \/ \E t \in Users : CloseConn(t)
    \/ \E t \in Loops : LoopTop(t)
    \/ \E t \in Loops : LoopCall(t)
    \/ \E t \in Loops : ReadError(t, MaxErrs)
    \/ \E t \in Loops : ReadText(t, MaxFrames)
    \/ \E t \in Loops : ReadBinary(t, SampleFrames, MaxFrames)
    \/ \E t \in Loops : SendErr(t)
    \/ \E t \in Loops : SendReconnectErr(t)
    \/ RecvTick
    \/ RecvErr

Spec == Init /\ [][Next]_vars

\* Scheduling: a goroutine that can run does run (WF of each thread's program
\* steps: calls that return, such as Dial, Sleep or Conn.Close, do return); a
\* goroutine waiting in mu.Lock() gets the mutex when it is released again and
\* again (SF: sync.Mutex hands over to starving waiters); the consumer keeps
\* receiving from both streams.  When the caller calls and what the network
\* delivers is not constrained.
ProgramStep(t) ==
    \/ Dial(t, BOOLEAN)
    \/ Sleep(t)
    \/ resubscribeAll(t)
    \/ StartLoop(t)
    \/ CloseData(t)
    \/ CloseErr(t)
    \/ CloseConn(t)
    \/ LoopTop(t)
    \/ LoopCall(t)
    \/ SendErr(t)
    \/ SendReconnectErr(t)

LockStep(t) ==
    \/ ConnectLock(t)
    \/ Subscribe(t)
    \/ Unsubscribe(t)
    \/ CloseLock(t)

Fairness ==
    /\ \A t \in Threads : WF_vars(ProgramStep(t))
    /\ \A t \in Threads : SF_vars(LockStep(t))
    /\ WF_vars(RecvTick)
    /\ WF_vars(RecvErr)

FairSpec == Init /\ [][Next]_vars /\ Fairness

\* The tick flood: the caller has connected once (first dial, empty registry)
\* and the network has delivered FloodPrefill 1-byte frames, frame number i
\* carrying the byte i % 256, in immediate succession with no receive by the
\* consumer in between; the loop is back at its top.  From there the network
\* delivers frames up to FloodFrames and the consumer receives as it likes.
FloodPrefill == DataChanCap - 1
FloodFrames == DataChanCap + 2
FloodFrame(i) == <<i % 256>>

InitFlood ==
    /\ pc = [t \in Threads |->
                IF t \in Users THEN "idle"
                ELSE IF t = (CHOOSE g \in Loops : TRUE) THEN "top" ELSE "free"]
    /\ mu = "free"
    /\ Conn = 1
    /\ connClosed = {}
    /\ rconn = [t \in Loops |-> 0]
    /\ attempt = [t \in Threads |-> 0]
    /\ err = [t \in Threads |-> NilErr]
    /\ ctrace = [t \in Threads |-> <<>>]
    /\ subscriptions = [k \in Tokens |-> "none"]
    /\ intended = [k \in Tokens |-> "none"]
    /\ call = [t \in Threads |-> NoCall]
    /\ pending = [t \in Threads |-> <<>>]
    /\ ret = [t \in Users |-> NilErr]
    /\ DataChan = [i \in 1 .. FloodPrefill |-> parseBinaryToTickData(FloodFrame(i - 1)).tick]
    /\ errChan = <<>>
    /\ ctxDone = FALSE
    /\ dataClosed = FALSE
    /\ errClosed = FALSE
    /\ sent = <<>>
    /\ panic = "none"
    /\ nframes = FloodPrefill
    /\ dataEnded = FALSE
    /\ errEnded = FALSE
    /\ unsubOther = FALSE
    /\ goarch = "amd64"
    /\ message = <<>>
    /\ parsed = NotParsed
    /\ held = [t \in Loops |-> NoMessage]
    /\ received = <<>>

NextFlood ==
    \/ \E t \in Loops : LoopTop(t)
    \/ \E t \in Loops : LoopCall(t)
    \/ \E t \in Loops : ReadBinary(t, {FloodFrame(nframes)}, FloodFrames)
    \/ RecvTick

SpecFlood == InitFlood /\ [][NextFlood]_vars

\* The error flood: the caller connects once and never subscribes, every dial
\* succeeds, every read fails, and nobody receives from the error stream.
NextErrFlood ==
    \/ \E t \in Users : CallConnect(t, LiveLoops = {} /\ Conn = 0)
    \/ \E t \in Threads : ConnectLock(t)
    \/ \E t \in Threads : Dial(t, {TRUE})
    \/ \E t \in Threads : resubscribeAll(t)
    \/ \E t \in Threads : StartLoop(t)
    \/ \E t \in Loops : LoopTop(t)
    \/ \E t \in Loops : LoopCall(t)
    \/ \E t \in Loops : ReadError(t, ErrChanCap + 1)
    \/ \E t \in Loops : SendErr(t)

SpecErrFlood == Init /\ [][NextErrFlood]_vars

\* Reconnects without Close: the caller calls Connect whenever it likes (also
\* on a connected client) and never subscribes, dials succeed or fail, reads
\* fail or deliver binary frames too short to decode, and nobody receives from
\* the error stream, which so keeps the history of the run.
MalformedFrames == {<<1, 2>>, [i \in 1 .. 16 |-> i]}
ReconnectErrs == MaxErrs + 2

NextReconnect ==
    \/ \E t \in Users : CallConnect(t, TRUE)
    \/ \E t \in Threads : ConnectLock(t)
    \/ \E t \in Threads : Dial(t, BOOLEAN)
    \/ \E t \in Threads : Sleep(t)
    \/ \E t \in Threads : resubscribeAll(t)
    \/ \E t \in Threads : StartLoop(t)
    \/ \E t \in Loops : LoopTop(t)
    \/ \E t \in Loops : LoopCall(t)
    \/ \E t \in Loops : ReadError(t, ReconnectErrs)
    \/ \E t \in Loops : ReadBinary(t, MalformedFrames, MaxFrames)
    \/ \E t \in Loops : SendErr(t)
    \/ \E t \in Loops : SendReconnectErr(t)

SpecReconnect == Init /\ [][NextReconnect]_vars

\* The decoder on its own: parseBinaryToTickData is called once on a frame of
\* any length 0 .. DecodeMaxLen.  Pattern 0 is all zero bytes, pattern 1 starts
\* at 85 and counts up, pattern 2 starts at 170 (high bit set) and counts by two.
DecodeFrame(n, k) == [i \in 1 .. n |-> (k * 85 + (i - 1) * k) % 256]

\* The four bytes of the int32 x, big-endian two's complement.
BigEndian32(x) ==
    LET low == IF x < 0 THEN (x + 2147483647) + 1 ELSE x
        top == (low \div 16777216) + (IF x < 0 THEN 128 ELSE 0)
    IN  <<top, (low \div 65536) % 256, (low \div 256) % 256, low % 256>>

\* A 17-byte frame of token 1 with the given LTP and previous close.
QuoteFrame(ltp, close) ==
    BigEndian32(1) \o BigEndian32(ltp) \o <<0, 0, 0, 0, 0>> \o BigEndian32(close)

\* <<LTP, close>> of the 17-byte frames decoded: a rise, a fall and no change
\* by whole percents, changes of 29 and 57 percent up and down, a close of
\* zero, and a rise from a negative close.
QuoteCases ==
    {<<105, 100>>, <<95, 100>>, <<100, 100>>, <<129, 100>>, <<71, 100>>, <<157, 100>>,
     <<100, 0>>, <<0, 0>>, <<-100, 0>>, <<-95, -100>>, <<2147483647, 1>>}

\* The 0-based offsets of the 8-byte fields of a 229-byte frame.
WideOffsets == {21, 29, 53} \cup {DepthOffset(k) : k \in 0 .. 9}

\* A 229-byte frame whose 8-byte fields have zero high halves and non-zero
\* low halves; every other byte is non-zero too.
SmallQuantityFrame ==
    [i \in 1 .. 229 |->
        IF \E lo \in WideOffsets : (i - 1) \in lo .. (lo + 3) THEN 0 ELSE 1 + ((i - 1) % 100)]

DecoderInputs ==
    {DecodeFrame(n, k) : n \in 0 .. DecodeMaxLen, k \in 0 .. (DecodeFills - 1)}
    \cup {QuoteFrame(c[1], c[2]) : c \in QuoteCases}
    \cup {SmallQuantityFrame}

InitDecode ==
    /\ pc = [t \in Threads |-> IF t \in Users THEN "idle" ELSE "free"]
    /\ mu = "free"
    /\ Conn = 0
    /\ connClosed = {}
    /\ rconn = [t \in Loops |-> 0]
    /\ attempt = [t \in Threads |-> 0]
    /\ err = [t \in Threads |-> NilErr]
    /\ ctrace = [t \in Threads |-> <<>>]
    /\ subscriptions = [k \in Tokens |-> "none"]
    /\ intended = [k \in Tokens |-> "none"]
    /\ call = [t \in Threads |-> NoCall]
    /\ pending = [t \in Threads |-> <<>>]
    /\ ret = [t \in Users |-> NoRet]
    /\ DataChan = <<>>
    /\ errChan = <<>>
    /\ ctxDone = FALSE
    /\ dataClosed = FALSE
    /\ errClosed = FALSE
    /\ sent = <<>>
    /\ panic = "none"
    /\ nframes = 0
    /\ dataEnded = FALSE
    /\ errEnded = FALSE
    /\ unsubOther = FALSE
    /\ goarch \in GoArchs
    /\ message \in DecoderInputs
    /\ parsed = NotParsed
    /\ held = [t \in Loops |-> NoMessage]
    /\ received = <<>>

\* tickData, err := ws.parseBinaryToTickData(message)
Decode ==
    /\ panic = "none"
    /\ parsed = NotParsed
    /\ parsed' = parseBinaryToTickData(message)
    /\ panic' = parsed'.panic
    /\ UNCHANGED <<pc, mu, connVars, rconn, dialVars, regVars, callVars, ret, chanVars,
                   closeVars, nframes, consVars, goarch, message, held, received>>

NextDecode == Decode

SpecDecode == InitDecode /\ [][NextDecode]_vars

\* The receive loop step by step: ReadMessage returns in one step and the loop
\* handles what it returned in a later one, so that other goroutines run in
\* between.  The caller connects as often as it likes, every dial succeeds, the
\* k-th message the network delivers is the one-byte binary frame of token k
\* or a text message, and the consumer keeps what it receives.
OrderFrames == MaxFrames + 1

\* messageType, message, err := ws.Conn.ReadMessage() with err = nil.
ReadMessage(t, maxFrames) ==
    /\ At(t, "read")
    /\ rconn[t] \notin connClosed
    /\ nframes < maxFrames
    /\ nframes' = nframes + 1
    /\ \E messageType \in {"binary", "text"} :
         \E f \in (IF messageType = "binary" THEN {FloodFrame(nframes + 1)} ELSE TextFrames) :
            held' = [held EXCEPT ![t] = [messageType |-> messageType, message |-> f]]
    /\ pc' = [pc EXCEPT ![t] = "handle"]
    /\ UNCHANGED <<mu, connVars, rconn, dialVars, regVars, callVars, ret, chanVars,
                   closeVars, panic, consVars, goarch, message, parsed, received>>

\* The loop handles the message its ReadMessage call returned.
HandleHeld(t) ==
    /\ At(t, "handle")
    /\ handleMessage(t, held[t].messageType, held[t].message)
    /\ held' = [held EXCEPT ![t] = NoMessage]
    /\ UNCHANGED <<mu, connVars, dialVars, regVars, callVars, ret, errChan,
                   closeVars, nframes, consVars, goarch, message, parsed, received>>

\* for tick := range dataChannel: the consumer receives the oldest buffered tick.
ReceiveTick ==
    /\ panic = "none"
    /\ DataChan # <<>>
    /\ DataChan' = Tail(DataChan)
    /\ received' = Append(received, Head(DataChan))
    /\ UNCHANGED <<pc, mu, connVars, rconn, dialVars, regVars, callVars, ret, errChan,
                   closeVars, panic, nframes, consVars, goarch, message, parsed, held>>

NextOrder ==
    \/ \E t \in Users : CallConnect(t, TRUE)
    \/ \E t \in Threads : ConnectLock(t)
    \/ \E t \in Threads : Dial(t, {TRUE})
    \/ \E t \in Threads : resubscribeAll(t)
    \/ \E t \in Threads : StartLoop(t)
    \/ \E t \in Loops : LoopTop(t)
    \/ \E t \in Loops : LoopCall(t)
    \/ \E t \in Loops : ReadMessage(t, OrderFrames)
    \/ \E t \in Loops : HandleHeld(t)
    \/ ReceiveTick

SpecOrder == Init /\ [][NextOrder]_vars

\* ------------------------------------------------------------------ claims

\* C4: the tick queue never holds more than 1000 items and the error queue never
\* more than 100; a frame read while the tick queue is full leaves the queue as
\* it was (the new tick is the one dropped) and the loop is back at its top,
\* ready for the next read, without a panic.
C4_BoundedDropNewest ==
    /\ [](Len(DataChan) <= DataChanCap /\ Len(errChan) <= ErrChanCap)
    /\ [][\A t \in Loops :
            (pc[t] = "read" /\ nframes' = nframes + 1 /\ Len(DataChan) = DataChanCap)
            => (DataChan' = DataChan /\ pc'[t] = "top" /\ panic' = "none")]_vars

\* A 1001st frame has been read with the queue at capacity, and the loop goes on.
C4_Witness ==
    /\ Len(DataChan) = DataChanCap
    /\ nframes = DataChanCap + 1
    /\ \E t \in Loops : pc[t] = "top"

\* C5 as claimed: a loop that is about to emit an error (the read error, or the
\* "reconnection failed" error) is never held up by a full error queue.
C5_ErrorSendNeverBlocks ==
    \A t \in Loops :
        pc[t] \in {"sendErr", "sendReconnectErr"}
        => (errClosed \/ Len(errChan) < ErrChanCap)


\* The control messages in sent are exactly one "sub" message per mode present
\* in the registry, each listing exactly the tokens assigned to that mode.
OneSubPerMode ==
    /\ Len(sent) = Cardinality(ModesPresent(subscriptions))
    /\ \A m \in ModesPresent(subscriptions) :
         \E i \in 1 .. Len(sent) :
            /\ sent[i].code = "sub"
            /\ sent[i].mode = m
            /\ Listed(sent[i].tokens) = TokensOfMode(subscriptions, m)
            /\ Len(sent[i].tokens) = Cardinality(TokensOfMode(subscriptions, m))

\* C1 as claimed: once a reconnecting loop has dialed successfully, its
\* resubscribe step completes having emitted exactly one "sub" message per
\* mode present in the registry, each listing that mode's tokens.
C1_ResubscribeEmitsOnePerMode ==
    \A t \in Loops :
        (pc[t] = "resubscribeAll") ~> (pc[t] = "go" /\ OneSubPerMode)

\* C2 as claimed: once a reconnecting loop of a not-closed client has dialed
\* successfully, a receive loop eventually reads from the new socket (unless
\* Close() is called meanwhile).
C2_ReconnectReachesConnected ==
    \A t \in Loops :
        (pc[t] = "resubscribeAll" /\ ~ctxDone)
        ~> (\/ ctxDone
            \/ \E g \in Loops : pc[g] = "read" /\ Conn # 0 /\ rconn[g] = Conn)

\* N dial attempts with a sleep between each two consecutive ones.
DialsWithSleepsBetween(n) == [i \in 1 .. (2 * n - 1) |-> IF i % 2 = 1 THEN "dial" ELSE "sleep"]
DialsIn(tr) == Cardinality({i \in 1 .. Len(tr) : tr[i] = "dial"})

\* C3: a Connect call never dials more than MaxRetries times, and when it gives
\* up (every dial failed) it has dialed exactly MaxRetries times with a sleep
\* between each two consecutive dials, and it returns the terminal error that
\* wraps the failure of the last dial (to the caller, or to reconnect, which
\* wraps it once more for the error stream).
C3_ExactlyMaxRetriesDials ==
    /\ [](\A t \in Threads : DialsIn(ctrace[t]) <= MaxRetries)
    /\ [][\A t \in Threads :
            (pc[t] = "sleep" /\ pc'[t] \notin {"sleep", "dial"})
            => /\ ctrace[t] = DialsWithSleepsBetween(MaxRetries)
               /\ err[t] = DialErr(MaxRetries)
               /\ t \in Users => ret'[t] = ConnectErr(DialErr(MaxRetries))
               /\ t \in Loops => err'[t] = ReconnectErr(ConnectErr(DialErr(MaxRetries)))]_vars

\* A caller's Connect has returned the terminal error.
C3_Witness == \E u \in Users : pc[u] = "idle" /\ ret[u] = ConnectErr(DialErr(MaxRetries))

\* C6 as claimed: once Close() has cancelled the context, no receive loop dials.
C6_NoDialAfterClose ==
    [][ctxDone => ~(\E t \in Loops : pc[t] = "dial" /\ pc'[t] # "dial")]_vars

\* C7 as claimed: nothing is ever sent on a delivery queue that Close() has closed.
C7_NoSendOnClosedQueue == panic # "send on closed channel"

\* A call of Close() has returned.
CloseReturned == errClosed /\ \A u \in Users : pc[u] # "closeConn"

C9_RegistryIsLatestSubscribe == \A k \in Tokens : subscriptions[k] = intended[k]

\* Subscribe([1,2],"full") then Subscribe([2],"ltp"): 1 -> "full", 2 -> "ltp".
C9_Witness == subscriptions[1] = "full" /\ subscriptions[2] = "ltp"

\* C10: a caller's Subscribe or Unsubscribe that finds no socket, or whose write
\* fails (no message goes out), returns an error, and whatever it returns the
\* registry holds the subscribed tokens under the call's mode (respectively no
\* longer holds the unsubscribed tokens) when it returns.
C10_FailedSendKeepsRegistry ==
    [][\A u \in Users :
         /\ (pc[u] = "Subscribe" /\ pc'[u] = "idle")
            => /\ (Conn = 0 \/ sent' = <<>>) => ret'[u] # NilErr
               /\ \A k \in Listed(call[u].tokens) : subscriptions'[k] = call[u].mode
         /\ (pc[u] = "Unsubscribe" /\ pc'[u] = "idle")
            => /\ (Conn = 0 \/ sent' = <<>>) => ret'[u] # NilErr
               /\ \A k \in Listed(call[u].tokens) : subscriptions'[k] = "none"]_vars

\* A call made with no socket has returned ErrCloseSent and the registry holds a subscription.
C10_Witness ==
    \E u \in Users :
        /\ pc[u] = "idle" /\ ret[u] = ErrCloseSent /\ Conn = 0
        /\ \E k \in Tokens : subscriptions[k] # "none"

\* C11: when the caller's Unsubscribe(tokens, mode) returns, every listed token
\* is gone from the registry whatever mode was stored for it, every other
\* token's entry is as before, and what went out on the socket is the one
\* "unsub" message carrying the mode argument and the listed tokens (it went
\* out exactly when the call returns nil).
C11_UnsubscribeDeletesListed ==
    [][\A u \in Users :
         (pc[u] = "Unsubscribe" /\ pc'[u] = "idle")
         => /\ \A k \in Tokens :
                 subscriptions'[k] =
                     IF k \in Listed(call[u].tokens) THEN "none" ELSE subscriptions[k]
            /\ sent' \in {<<>>, <<Message("unsub", call[u].mode, call[u].tokens)>>}
            /\ (ret'[u] = NilErr) <=> (sent' # <<>>)]_vars

\* An Unsubscribe has deleted an entry stored under another mode than its
\* argument, has sent its message, and an unlisted token is still registered.
C11_Witness ==
    /\ unsubOther
    /\ \E u \in Users : pc[u] = "idle" /\ ret[u] = NilErr
    /\ sent # <<>> /\ sent[1].code = "unsub"
    /\ \E k \in Tokens : k \notin Listed(sent[1].tokens) /\ subscriptions[k] # "none"

\* C12 as claimed: once Close() has been called (the context is cancelled), no
\* thread dials, no new socket is installed in ws.Conn and no receive loop is
\* started.
C12_ClosedIsTerminal ==
    [][ctxDone
       => /\ \A t \in Threads : ~(pc[t] = "dial" /\ pc'[t] # "dial")
          /\ Conn' \in {Conn, 0}
          /\ \A g \in Loops : pc[g] = "free" => pc'[g] = "free"]_vars

\* C13 as claimed: when the Connect() called by reconnect has exhausted its
\* retries, the step that reports the failure puts the "reconnection failed"
\* error wrapping the last dial failure on the error stream, the process does
\* not crash, and the loop ends.
C13_ExhaustedReconnectIsReported ==
    [][\A t \in Loops :
         SendReconnectErr(t)
         => /\ panic' = "none"
            /\ errChan' = Append(errChan, ReconnectErr(ConnectErr(DialErr(MaxRetries))))
            /\ pc'[t] = "free"]_vars

\* Loops inside the for loop of handleMessages.
ActiveLoops == {g \in Loops : pc[g] \in {"top", "call", "read"}}

\* C14 as claimed: at most one receive loop is active at any time.
C14_AtMostOneLoop == Cardinality(ActiveLoops) <= 1

\* C15 as claimed: the receive loop's accesses to ws.Conn (the nil check and
\* the ReadMessage call) never happen while a Connect that holds the lock is
\* between its dial attempts.
C15_LoopNeverReadsConnDuringDial ==
    [][\A t \in Loops :
         (LoopTop(t) \/ LoopCall(t))
         => ~(\E c \in Threads : mu = c /\ pc[c] \in {"dial", "sleep"})]_vars

\* C16 as claimed: a Subscribe or Unsubscribe the caller makes while a
\* reconnecting loop is resubscribing eventually returns.
C16_CallDuringResubscribeReturns ==
    \A u \in Users :
        (/\ pc[u] \in {"Subscribe", "Unsubscribe"}
         /\ \E t \in Loops : pc[t] \in {"resubscribeAll", "Subscribe"})
        ~> (pc[u] = "idle")

\* C17: every read error whose send on the error stream completes is followed
\* by a call of Connect, whatever reconnects and failed attempts came before;
\* every Connect call starts with attempt = 1 and no dial made, and a
\* reconnect's Connect gives up only after MaxRetries dials of its own.
C17_EveryReconnectGetsFullBudget ==
    /\ [][\A t \in Loops :
            (pc[t] = "sendErr" /\ pc'[t] # "sendErr") => pc'[t] = "Connect"]_vars
    /\ [][\A t \in Threads :
            (pc[t] = "Connect" /\ pc'[t] # "Connect")
            => (pc'[t] = "dial" /\ attempt'[t] = 1 /\ ctrace'[t] = <<>>)]_vars
    /\ [][\A t \in Loops :
            (pc[t] = "sleep" /\ pc'[t] = "sendReconnectErr")
            => (attempt[t] = MaxRetries /\ DialsIn(ctrace[t]) = MaxRetries)]_vars

\* The error stream holds a read error, the failure of the reconnect that
\* followed it (all its dials failed), and a second read error; the reconnect
\* that followed the second one has again failed MaxRetries dials.
C17_Witness ==
    /\ errChan = <<ReadErr, ReconnectErr(ConnectErr(DialErr(MaxRetries))), ReadErr>>
    /\ \E t \in Loops :
          /\ pc[t] = "sleep" /\ attempt[t] = MaxRetries
          /\ ctrace[t] = DialsWithSleepsBetween(MaxRetries)

\* C18: the step in which the loop reads a binary frame that fails to decode
\* enqueues nothing on the tick queue and nothing on the error queue, does not
\* crash, leaves the socket handle alone, and takes the loop back to the top of
\* its for loop (not into the error path that reconnects).
C18_MalformedFrameIsSkipped ==
    [][\A t \in Loops :
         ReadBinary(t, MalformedFrames, MaxFrames)
         => /\ DataChan' = DataChan
            /\ errChan' = errChan
            /\ panic' = "none"
            /\ Conn' = Conn
            /\ pc'[t] = "top"]_vars

\* MaxFrames frames, all too short to decode, have been read on the first
\* connection; both queues are empty and the one loop is in its next read on
\* that same connection.
C18_Witness ==
    /\ nframes = MaxFrames /\ DataChan = <<>> /\ errChan = <<>>
    /\ Conn = 1
    /\ \E t \in Loops : ActiveLoops = {t} /\ pc[t] = "read" /\ rconn[t] = Conn

\* C19: for a frame of any length the decoder evaluates no index or slice
\* expression that reaches beyond the frame, does not panic, and returns
\* either a tick (all fields of TickData, nil error) or the length error.
C19_DecoderStaysInBounds ==
    /\ \A sl \in SlicesTaken(Len(message)) : sl[1] <= sl[2] /\ sl[2] <= Len(message)
    /\ parsed # NotParsed
       => /\ parsed.panic = "none" /\ panic = "none"
          /\ parsed.err \in {"", "invalid data length"}
          /\ DOMAIN parsed.tick = DOMAIN ZeroTick

\* A 229-byte frame, whose last two bytes (indexes 227 and 228) the decoder
\* reads, has been decoded into a tick.
C19_Witness ==
    /\ parsed # NotParsed /\ parsed.err = ""
    /\ <<227, 229>> \in SlicesTaken(Len(message))
    /\ Len(message) = 229

\* C20: decoding a frame of 2 to 16 bytes returns the length error and the
\* zero tick.
C20_ShortFrameFails ==
    (parsed # NotParsed /\ Len(message) \in 2 .. 16)
    => (parsed.err = "invalid data length" /\ parsed.tick = ZeroTick /\ parsed.panic = "none")

\* A 16-byte frame of non-zero bytes has been refused.
C20_Witness ==
    /\ parsed # NotParsed /\ parsed.err = "invalid data length"
    /\ Len(message) = 16 /\ \A i \in 1 .. 16 : message[i] # 0

\* The fields the decoder reads from offset 17 on (the extended fields, the
\* circuit limits and the depth), together with LTQ, which it never sets.
ExtendedFields ==
    {"AvgPrice", "TotalBuyQty", "TotalSellQty", "Open", "High", "Low", "Volume", "LTT",
     "Time", "OI", "OIDayHigh", "OIDayLow"}
LimitFields == {"LowerLimit", "UpperLimit"}

\* The decoder has returned a tick for the frame in message.
Decoded == parsed # NotParsed /\ parsed.err = "" /\ parsed.panic = "none"

\* C21: decoding a frame of 18 to 80 bytes succeeds, sets the token, the LTP
\* and the fields derived from the previous close at bytes 13..17 (close and
\* net-change indicator), and leaves every extended field, the circuit limits
\* and the depth at zero.
C21_MidFrameHasCloseFields ==
    (parsed # NotParsed /\ Len(message) \in 18 .. 80)
    => /\ Decoded
       /\ parsed.tick.Token = bigEndianToInt(SubSeq(message, 1, 4))
       /\ parsed.tick.LTP = bigEndianToInt(SubSeq(message, 5, 8))
       /\ parsed.tick.Close = bigEndianToInt(SubSeq(message, 14, 17))
       /\ parsed.tick.NetChangeIndicator \in {43, 45, 32}
       /\ \A f \in ExtendedFields \cup LimitFields \cup {"LTQ"} : parsed.tick[f] = 0
       /\ parsed.tick.MarketDepth = ZeroDepth

\* C22: decoding a 1-byte frame succeeds and gives a tick whose token is the
\* value of the byte (0 .. 255) and whose other fields are all zero.
C22_OneByteFrameIsToken ==
    (parsed # NotParsed /\ Len(message) = 1)
    => /\ Decoded
       /\ parsed.tick = [ZeroTick EXCEPT !.Token = message[1]]
       /\ parsed.tick.Token \in 0 .. 255

\* A 1-byte frame whose byte has its high bit set has been decoded.
C22_Witness ==
    /\ Decoded /\ Len(message) = 1 /\ message[1] >= 128
    /\ parsed.tick.Token = message[1]

\* (d / c) * 100 truncated toward zero, in exact arithmetic, for c # 0:
\* [fits, value], fits being whether the result is an int32.
C23_TruncatedPercent(d, c) ==
    LET neg == (d < 0) # (c < 0)
        mag == Strip(DivBits[[dividend |-> Times100(AbsBits(d)),
                              b |-> IF c < 0 THEN -c ELSE c, rem |-> 0]].q)
    IN  IF Len(mag) <= 31
        THEN [fits |-> TRUE, value |-> IF neg THEN -BitsNat[mag] ELSE BitsNat[mag]]
        ELSE [fits |-> FALSE, value |-> 0]

\* C23: for a 17-byte frame with close # 0 the net change is
\* (LTP - close) / close * 100 truncated toward zero, and the net-change
\* indicator is 43 when LTP > close, 45 when LTP < close and 32 when they are
\* equal.
C23_NetChangeIsTruncatedPercent ==
    (parsed # NotParsed /\ Len(message) = 17 /\ bigEndianToInt(SubSeq(message, 14, 17)) # 0)
    => LET ltp == bigEndianToInt(SubSeq(message, 5, 8))
           close == bigEndianToInt(SubSeq(message, 14, 17))
           exact == C23_TruncatedPercent(SubInt32(ltp, close), close)
       IN  /\ Decoded
           /\ exact.fits /\ parsed.tick.NetChange = exact.value
           /\ parsed.tick.NetChangeIndicator =
                  (IF ltp > close THEN 43 ELSE IF ltp < close THEN 45 ELSE 32)

\* C24: a 229-byte frame decodes into exactly 5 bid levels and 5 ask levels in
\* input order; bid level i is a function of the 14 bytes from offset
\* 89 + 14 * i alone and ask level i of the 14 bytes from offset 159 + 14 * i
\* alone, and the last ask level ends at byte 229.
C24_DepthLevelsReadTheirOwnBytes ==
    (Decoded /\ Len(message) = 229)
    => LET depth == parsed.tick.MarketDepth
           Record(off) == SubSeq(message, off + 1, off + 14)
       IN  /\ DOMAIN depth.Bids = 1 .. 5 /\ DOMAIN depth.Asks = 1 .. 5
           /\ \A i \in 0 .. 4 :
                /\ depth.Bids[i + 1] = ParseLevel(Record(89 + 14 * i), 0)
                /\ depth.Asks[i + 1] = ParseLevel(Record(159 + 14 * i), 0)
           /\ 159 + 14 * 4 + 14 = Len(message)

\* A 229-byte frame has been decoded whose ten depth levels all differ.
C24_Witness ==
    /\ Decoded /\ Len(message) = 229
    /\ LET depth == parsed.tick.MarketDepth
           levels == [k \in 0 .. 9 |-> IF k < 5 THEN depth.Bids[k + 1] ELSE depth.Asks[k - 4]]
       IN  \A j, k \in 0 .. 9 : j # k => levels[j] # levels[k]

\* x is the big-endian two's-complement value of the 8 bytes b.  The decoder
\* only produces values of the int32 range, and x is one of them exactly when
\* the high four bytes of b are the sign extension of its low four bytes.
C25_IsValueOf8Bytes(x, b) ==
    LET high == bigEndianToInt(SubSeq(b, 1, 4))
        low == bigEndianToInt(SubSeq(b, 5, 8))
    IN  /\ x = low
        /\ high = (IF low < 0 THEN -1 ELSE 0)

\* C25: every 64-bit field of a decoded tick (total buy quantity at bytes
\* 21..29, total sell quantity at 29..37, volume at 53..61, and the quantity of
\* each depth level) is the big-endian two's-complement value of all 8 bytes
\* of its field; a field with non-zero low 4 bytes decodes to a non-zero value.
C25_WideFieldsReadEightBytes ==
    (Decoded /\ Len(message) >= 81)
    => LET tick == parsed.tick
           Field(off) == SubSeq(message, off + 1, off + 8)
       IN  /\ C25_IsValueOf8Bytes(tick.TotalBuyQty, Field(21))
           /\ C25_IsValueOf8Bytes(tick.TotalSellQty, Field(29))
           /\ C25_IsValueOf8Bytes(tick.Volume, Field(53))
           /\ Len(message) = 229
              => \A i \in 0 .. 4 :
                    /\ C25_IsValueOf8Bytes(tick.MarketDepth.Bids[i + 1].Quantity, Field(89 + 14 * i))
                    /\ C25_IsValueOf8Bytes(tick.MarketDepth.Asks[i + 1].Quantity, Field(159 + 14 * i))

\* C26: in a 229-byte frame the order count of each depth level is the
\* big-endian 16-bit value of bytes 12..14 of the level's 14-byte record and
\* its price is the big-endian 32-bit value of bytes 8..12 of the record.
C26_LevelPriceAndOrders ==
    (Decoded /\ Len(message) = 229)
    => LET depth == parsed.tick.MarketDepth
           Record(off) == SubSeq(message, off + 1, off + 14)
           Price(rec) == bigEndianToInt(SubSeq(rec, 9, 12))
           Orders(rec) == ToInt16(rec[13] * 256 + rec[14])
       IN  \A i \in 0 .. 4 :
              /\ depth.Bids[i + 1].Price = Price(Record(89 + 14 * i))
              /\ depth.Bids[i + 1].Orders = Orders(Record(89 + 14 * i))
              /\ depth.Asks[i + 1].Price = Price(Record(159 + 14 * i))
              /\ depth.Asks[i + 1].Orders = Orders(Record(159 + 14 * i))

\* The 0-based slice bounds of the extended fields.
C27_ExtendedSlices ==
    [AvgPrice |-> <<17, 21>>, TotalBuyQty |-> <<21, 29>>, TotalSellQty |-> <<29, 37>>,
     Open |-> <<37, 41>>, High |-> <<41, 45>>, Close |-> <<45, 49>>, Low |-> <<49, 53>>,
     Volume |-> <<53, 61>>, LTT |-> <<61, 65>>, Time |-> <<65, 69>>, OI |-> <<69, 73>>,
     OIDayHigh |-> <<73, 77>>, OIDayLow |-> <<77, 81>>]

\* C27: for every frame of 81 bytes or more whose length is not 229 the
\* decoder populates the extended fields from the offsets 17..81 and leaves
\* the circuit limits and all ten depth levels zero.
C27_DepthOnlyFor229 ==
    (parsed # NotParsed /\ Len(message) >= 81 /\ Len(message) # 229)
    => /\ Decoded
       /\ \A f \in DOMAIN C27_ExtendedSlices :
              parsed.tick[f] = bigEndianToInt(SubSeq(message, C27_ExtendedSlices[f][1] + 1,
                                                     C27_ExtendedSlices[f][2]))
       /\ \A f \in LimitFields : parsed.tick[f] = 0
       /\ parsed.tick.MarketDepth = ZeroDepth

\* A frame longer than 229 bytes, with non-zero bytes where a 229-byte frame
\* holds its limits and its first bid level, has been decoded into a tick with
\* non-zero extended fields.
C27_Witness ==
    /\ Decoded /\ Len(message) > 229
    /\ \A i \in 82 .. 103 : message[i] # 0
    /\ \A f \in DOMAIN C27_ExtendedSlices : parsed.tick[f] # 0

\* Thread t is in the resubscription of its Connect call.
C28_Resubscribing(t) ==
    pc[t] = "resubscribeAll" \/ (pc[t] = "Subscribe" /\ pending[t] # <<>>)

C29_AfterReadError ==
    {"sendErr", "Connect", "dial", "sleep", "resubscribeAll", "Subscribe", "go", "sendReconnectErr"}

\* C29: a receive loop whose read failed puts the read error on the error
\* queue before it enters Connect (and so before any dial of the reconnect),
\* and from the failed read on it performs no further read: its next position
\* outside the reconnect is its return.
C29_ErrorQueuedThenReconnectThenExit ==
    [][\A t \in Loops :
          /\ (pc[t] = "read" /\ pc'[t] \in C29_AfterReadError) => pc'[t] = "sendErr"
          /\ (pc[t] = "sendErr" /\ pc'[t] # "sendErr")
             => (errChan' = Append(errChan, ReadErr) /\ pc'[t] = "Connect")
          /\ (pc'[t] = "dial" /\ pc[t] # "dial") => pc[t] \in {"Connect", "sleep"}
          /\ pc[t] \in C29_AfterReadError
             => (pc'[t] \in C29_AfterReadError \cup {"free"} /\ rconn'[t] = 0)]_vars

\* A receive loop whose read failed is at the first dial of its reconnect, and
\* its read error is the latest entry of the error queue.
C29_Witness ==
    \E t \in Loops :
        /\ pc[t] = "dial" /\ attempt[t] = 1
        /\ errChan # <<>> /\ errChan[Len(errChan)] = ReadErr

\* C30: no thread tries to acquire ws.mu while it holds it (a thread that did
\* would wait for itself and its Connect call would never return).
C30_NoLockWhileHoldingIt ==
    \A t \in Threads : ~(mu = t /\ pc[t] \in {"Connect", "Subscribe", "Unsubscribe", "Close"})

\* Thread t is in a Connect call that has dialed successfully.
C31_Connected(t) == C28_Resubscribing(t) \/ pc[t] = "go"

\* Thread t is in a Connect call.
C31_InConnect(t) == C31_Connected(t) \/ pc[t] \in {"Connect", "dial", "sleep"}

\* C31: Connect stops at the first dial that succeeds: a dial that succeeds
\* sets the socket handle to its connection and is followed by no further dial
\* and no delay of that call, the handle stays that connection until the call
\* returns, and the call returns nil exactly when it returns from there (a
\* call that returns an error returns from the delay after a failed dial, or
\* without any dial).
C31_ConnectStopsAtFirstSuccess ==
    [][\A t \in Threads :
          /\ (pc[t] = "dial" /\ pc'[t] # "dial")
             => \/ pc'[t] = "resubscribeAll" /\ Conn' # 0 /\ Conn' # Conn /\ Conn' \notin connClosed'
                \/ pc'[t] = "sleep" /\ Conn' = 0
          /\ C31_Connected(t)
             => (pc'[t] \notin {"dial", "sleep"} /\ Conn' = Conn /\ attempt'[t] \in {attempt[t], 0})
          /\ (C31_InConnect(t) /\ ~C31_InConnect(t)')
             => IF pc[t] = "go"
                THEN /\ t \in Users => (pc'[t] = "idle" /\ ret'[t] = NilErr)
                     /\ t \in Loops => pc'[t] = "free"
                ELSE /\ pc[t] \in {"sleep", "Connect"}
                     /\ t \in Users => (pc'[t] = "idle" /\ ret'[t] # NilErr /\ ret'[t] # NoRet)
                     /\ t \in Loops => pc'[t] = "sendReconnectErr"]_vars

\* The caller's Connect call is about to return nil: its first dial failed, its
\* second succeeded, and the socket handle is a connection.
C31_Witness ==
    /\ panic = "none" /\ pc["u1"] = "go" /\ ctrace["u1"] = <<"dial", "sleep", "dial">>
    /\ Conn # 0 /\ attempt["u1"] = 2

\* C33: a Connect call that has used up its attempts changes no registry entry
\* while it dials and sleeps, and returns with a nil socket handle; as long as
\* the handle is nil a caller's Subscribe or Unsubscribe returns the
\* connection error and writes nothing.
C33_ExhaustedConnectLeavesNoHandle ==
    [][\A t \in Threads :
          /\ (mu = t /\ pc[t] \in {"dial", "sleep"}) => subscriptions' = subscriptions
          /\ (pc[t] = "sleep" /\ pc'[t] \notin {"sleep", "dial"})
             => (Conn = 0 /\ Conn' = 0 /\ mu' = "free")
          /\ (/\ t \in Users /\ pc[t] \in {"Subscribe", "Unsubscribe"} /\ pending[t] = <<>>
              /\ pc'[t] = "idle" /\ Conn = 0)
             => (ret'[t] = ErrCloseSent /\ sent' = <<>> /\ Conn' = 0)]_vars

\* A reconnect has used up its attempts on a client that had a connection and
\* has a registry entry: the handle is nil and the registry entry is kept.
C33_Witness ==
    /\ panic = "none" /\ Conn = 0 /\ subscriptions[2] # "none"
    /\ \E t \in Loops : pc[t] = "sendReconnectErr" /\ err[t] = ReconnectErr(ConnectErr(DialErr(MaxRetries)))

\* C34: a decoded frame whose length is not 17 has net change 0 and net-change
\* indicator 0, whatever its LTP and close are, and every decoded tick has
\* last-traded quantity 0.
C34_NetChangeOnlyFor17Bytes ==
    Decoded =>
        /\ Len(message) # 17
           => (parsed.tick.NetChange = 0 /\ parsed.tick.NetChangeIndicator = 0)
        /\ parsed.tick.LTQ = 0

\* A full 229-byte frame has been decoded: its LTP differs from its close, which
\* is not zero, and both net-change fields are zero.
C34_Witness ==
    /\ Decoded /\ Len(message) = 229
    /\ parsed.tick.Close # 0 /\ parsed.tick.LTP # parsed.tick.Close
    /\ parsed.tick.NetChange = 0 /\ parsed.tick.NetChangeIndicator = 0 /\ parsed.tick.LTQ = 0

\* C35: when a loop has handled a message that is not a binary frame, the tick
\* queue, the error queue, the registry and the socket handle are as they were,
\* nothing has panicked, and the loop is at the top of its loop again.
C35_NonBinaryMessageChangesNothing ==
    [][\A t \in Loops :
          (held[t].messageType = "text" /\ held'[t] = NoMessage)
          => /\ DataChan' = DataChan /\ errChan' = errChan /\ received' = received
             /\ subscriptions' = subscriptions /\ Conn' = Conn /\ connClosed' = connClosed
             /\ panic' = panic /\ mu' = mu
             /\ pc'[t] = "top"]_vars

\* Two messages were read and both handled, the first a text message: only the
\* tick of the second has reached the consumer, and nothing is queued.
C35_Witness ==
    /\ panic = "none" /\ nframes = 2 /\ DataChan = <<>> /\ errChan = <<>>
    /\ \A t \in Loops : held[t] = NoMessage
    /\ \E t \in Loops : pc[t] = "top"
    /\ Len(received) = 1 /\ received[1].Token = 2

\* C32: the ticks the consumer has received are in the order in which their
\* frames were read, none twice (the k-th message read carries token k), and
\* each is the decoded value of its frame.
C32_ReceivedInReadOrder ==
    /\ \A i, j \in 1 .. Len(received) : i < j => received[i].Token < received[j].Token
    /\ \A i \in 1 .. Len(received) :
          received[i] = parseBinaryToTickData(FloodFrame(received[i].Token)).tick

====
